---- MODULE Spec2Model ----
(***************************************************************************)
(* A state-machine model of the bar-driven simulator `backtest`            *)
(* (src/src/lib/backtest.ts).                                              *)
(*                                                                         *)
(* One step of the model is one iteration of the main loop (one bar of     *)
(* the indicator series run through the switch on positionStatus), or the  *)
(* code after the loop.  The series is supplied bar by bar: the loop never *)
(* looks ahead, and the only value the code computes from the whole series *)
(* up front (timeframe, line 131) is used after the loop only, so it is    *)
(* computed there from the first time, the last time and the bar count.    *)
(*                                                                         *)
(* Prices and times are integers.  Quotients (growth, rates, percentages)  *)
(* are kept as exact fractions [n, d], never rounded.  An optional value   *)
(* (a TypeScript `T | undefined`) is the empty sequence when undefined and *)
(* the one-element sequence <<v>> when defined.  Fields of IPosition and   *)
(* ITrade that only carry a derived figure out of the function (profitPct, *)
(* curRMultiple, runUp) are left out.                                      *)
(***************************************************************************)
EXTENDS Integers, Sequences, FiniteSets, TLC

\* ------------------------------------------------------------------ bounds
\* Longest series of bars fed to one run.
MaxBars == 4
\* Prices of a bar are drawn from 1..MaxPrice.
MaxPrice == 2
\* Prices of a bar of the runs that study stops: 1..MaxStopPrice, so that a
\* price lies below a stop that lies below an entry price.
MaxStopPrice == 3
\* Distances returned in those runs: 0..MaxStopDist, so that a trailing stop
\* computed from a close above the initial stop lies below it.
MaxStopDist == 2
\* The bars of a series are `interval` apart, interval being 1 or MaxInterval.
MaxInterval == 2
\* Distances returned by stopLoss / trailingStopLoss / profitTarget: 0..MaxDist.
MaxDist == 1
\* strategy.lookbackPeriod is drawn from 1..MaxLookback.
MaxLookback == 2

VARIABLES
    strategy,         \* the IStrategy argument: which callbacks it defines, and the
                      \* distances its stopLoss / trailingStopLoss / profitTarget return
    options,          \* the IBacktestOptions argument
    pc,               \* "loop" | "done" (returned) | "TypeError" | "AssertionError"
                      \* (thrown out of backtest)
    barCount,         \* bars consumed so far
    interval,         \* the time between two bars of the input series
    priceCap,         \* the highest price of the input series
    barCap,           \* the longest input series considered
    firstTime,        \* inputSeries.first().time
    bar,              \* the bar of the current/last iteration
    lookbackBuffer,   \* the CBuffer of capacity lookbackPeriod: its ring storage
                      \* `data` (each bar named by its time), `end` and `length`
    positionStatus,   \* "None" | "Enter" | "Position" | "Exit"
    positionDirection,
    openPosition,     \* the IPosition, or null
    exitPrice,        \* optional
    exitReason,       \* optional
    completedTrades,  \* sequence of ITrade
    dispatched,       \* observation: the case the last iteration's switch took
    intrabar,         \* observation: what the last call of exitOnCondition saw and did
    handleCalls,      \* observation: the calls the rule invoked on the last bar made of
                      \* enterPosition / exitPosition, each with the status it found
    analyzer          \* a call of analyze: its arguments, its position and its locals

vars == <<strategy, options, pc, barCount, interval, priceCap, barCap, firstTime, bar, lookbackBuffer,
          positionStatus, positionDirection, openPosition, exitPrice,
          exitReason, completedTrades, dispatched, intrabar, handleCalls, analyzer>>

\* ------------------------------------------------------------------ values
null == [null |-> TRUE]
undefined == <<>>
Some(v) == <<v>>
IsDefined(x) == x /= undefined
Val(x) == x[1]

Min(a, b) == IF a <= b THEN a ELSE b
Max(a, b) == IF a >= b THEN a ELSE b

\* JavaScript truthiness of an optional number (undefined and 0 are falsy).
Truthy(x) == IsDefined(x) /\ Val(x) /= 0

\* Exact fractions.  d = 0 stands for a division by zero (Infinity or NaN).
Frac(n, d) == [n |-> n, d |-> d]
FracMul(a, b) == Frac(a.n * b.n, a.d * b.d)
FracDiv(a, b) == Frac(a.n * b.d, a.d * b.n)
FracSub(a, b) == Frac(a.n * b.d - b.n * a.d, a.d * b.d)
FracOne == Frac(1, 1)

Prices(cap) == 1..cap
Distances == 0..MaxDist
Directions == {"long", "short"}

\* The price part of a bar, for each price range: low <= open, close <= high.
Candles ==
    [cap \in {MaxPrice, MaxStopPrice} |->
        {c \in [open : Prices(cap), high : Prices(cap), low : Prices(cap),
                close : Prices(cap)] :
            /\ c.low <= c.open /\ c.open <= c.high
            /\ c.low <= c.close /\ c.close <= c.high}]

\* The bars that may come next in the series: the first one is at time 0, each
\* later one `interval` after the one before (times strictly increasing).
NextBars ==
    {[time |-> barCount * interval, open |-> c.open, high |-> c.high,
      low |-> c.low, close |-> c.close] : c \in Candles[priceCap]}

\* ------------------------------------------------------------------ updatePosition
\* updatePosition that does not count the bar in holdingPeriod.
updatePositionNoCount(position, b) ==
    LET price == b.open
        long == position.direction = "long"
        growth == IF long THEN Frac(price, position.entryPrice)
                          ELSE Frac(position.entryPrice * 2 - price, position.entryPrice)
        unitRisk == IF long THEN price - Val(position.curStopPrice)
                            ELSE Val(position.curStopPrice) - price
    IN  [position EXCEPT
            !.profit = IF long THEN price - position.entryPrice
                               ELSE position.entryPrice - price,
            !.growth = growth,
            !.curRiskPct = IF IsDefined(position.curStopPrice)
                             THEN Some(Frac(unitRisk * 100, price))
                             ELSE @,
            !.curRateOfReturn = FracSub(FracDiv(growth, position.growth), FracOne)]

\* updatePosition (lines 15-28): mark the position to the open of the bar.
updatePosition(position, b) ==
    LET price == b.open
        lastGrowth == position.growth
        long == position.direction = "long"
        profit == IF long THEN price - position.entryPrice ELSE position.entryPrice - price
        growth == IF long THEN Frac(price, position.entryPrice)
                          ELSE Frac(position.entryPrice * 2 - price, position.entryPrice)
        unitRisk == IF long THEN price - Val(position.curStopPrice)
                            ELSE Val(position.curStopPrice) - price
    IN  [position EXCEPT
            !.profit = profit,
            !.growth = growth,
            !.curRiskPct = IF IsDefined(position.curStopPrice)
                             THEN Some(Frac(unitRisk * 100, price))
                             ELSE @,
            !.holdingPeriod = @ + 1,
            !.curRateOfReturn = FracSub(FracDiv(growth, lastGrowth), FracOne)]

\* ------------------------------------------------------------------ finalizePosition
\* finalizePosition that takes the fees off the growth as a flat amount.
finalizePositionFlatFee(position, exitTime, exitPx, reason, fees) ==
    LET long == position.direction = "long"
        profit == IF long THEN exitPx - position.entryPrice ELSE position.entryPrice - exitPx
        growth == IF long THEN Frac(exitPx, position.entryPrice)
                          ELSE Frac(position.entryPrice * 2 - exitPx, position.entryPrice)
        feeGrowth == FracSub(growth, fees)
        curRateOfReturn == FracSub(FracDiv(feeGrowth, position.growth), FracOne)
    IN  [direction |-> position.direction,
         entryTime |-> position.entryTime,
         entryPrice |-> position.entryPrice,
         exitTime |-> exitTime,
         exitPrice |-> exitPx,
         profit |-> profit,
         growth |-> feeGrowth,
         riskPct |-> position.initialRiskPct,
         riskSeries |-> position.riskSeries,
         rateOfReturnSeries |->
            IF IsDefined(position.rateOfReturnSeries)
              THEN Some(Append(Val(position.rateOfReturnSeries),
                               [time |-> exitTime, value |-> curRateOfReturn]))
              ELSE undefined,
         rmultiple |-> IF IsDefined(position.initialUnitRisk)
                         THEN Some(Frac(profit, Val(position.initialUnitRisk)))
                         ELSE undefined,
         holdingPeriod |-> position.holdingPeriod + 1,
         exitReason |-> reason,
         stopPrice |-> position.curStopPrice,
         stopPriceSeries |-> position.stopPriceSeries,
         profitTarget |-> position.profitTarget]

\* finalizePosition (lines 37-74): close the position and produce the trade.
finalizePosition(position, exitTime, exitPx, reason, fees) ==
    LET long == position.direction = "long"
        profit == IF long THEN exitPx - position.entryPrice ELSE position.entryPrice - exitPx
        rmultiple == IF IsDefined(position.initialUnitRisk)
                       THEN Some(Frac(profit, Val(position.initialUnitRisk)))
                       ELSE undefined
        lastGrowth == position.growth
        growth == IF long THEN Frac(exitPx, position.entryPrice)
                          ELSE Frac(position.entryPrice * 2 - exitPx, position.entryPrice)
        feeGrowth == FracSub(growth, FracMul(growth, fees))
        holdingPeriod == position.holdingPeriod + 1
        curRateOfReturn == FracSub(FracDiv(feeGrowth, lastGrowth), FracOne)
        rateOfReturnSeries ==
            IF IsDefined(position.rateOfReturnSeries)
              THEN Some(Append(Val(position.rateOfReturnSeries),
                               [time |-> exitTime, value |-> curRateOfReturn]))
              ELSE undefined
    IN  [direction |-> position.direction,
         entryTime |-> position.entryTime,
         entryPrice |-> position.entryPrice,
         exitTime |-> exitTime,
         exitPrice |-> exitPx,
         profit |-> profit,
         growth |-> feeGrowth,
         riskPct |-> position.initialRiskPct,
         riskSeries |-> position.riskSeries,
         rateOfReturnSeries |-> rateOfReturnSeries,
         rmultiple |-> rmultiple,
         holdingPeriod |-> holdingPeriod,
         exitReason |-> reason,
         stopPrice |-> position.curStopPrice,
         stopPriceSeries |-> position.stopPriceSeries,
         profitTarget |-> position.profitTarget]

\* ------------------------------------------------------------------ the handles
\* enterPosition (lines 185-190): the handle given to entryRule.  `direction`
\* is options.direction, optional; the assertion is the caller's guard.
enterPosition(direction) ==
    [positionStatus |-> "Enter",
     positionDirection |-> IF IsDefined(direction) THEN Val(direction) ELSE "long"]

\* exitPosition (lines 195-201): the handle given to exitRule, also called by
\* exitOnCondition.  Both arguments are optional.
exitPosition(price, reason) ==
    [positionStatus |-> "Exit", exitPrice |-> price, exitReason |-> reason]

\* An assert that lets every call through.
assertNothing(condition) == TRUE

\* chai's assert (lines 186 and 196): it returns when the condition holds and
\* throws an AssertionError, which nothing in backtest catches, when it does not.
assert(condition) == condition

\* The status the assertion of a handle requires (lines 186, 196) and the
\* status the handle leaves (lines 188, 198).
requiredStatus(handle) == IF handle = "enter" THEN "None" ELSE "Position"
leftStatus(handle) == IF handle = "enter" THEN "Enter" ELSE "Exit"

\* A rule is free to call its handle again after its move, or to call the
\* other handle, which it can have kept from an earlier invocation of the
\* other rule: what it does after its move.
RuleEndings == {"return", "enter", "exit"}

\* The handle calls of one rule invocation: the move's call, if it makes one,
\* then the ending's.
callsOf(first, ending) ==
    (IF first = "none" THEN <<>> ELSE <<first>>)
        \o (IF ending = "return" THEN <<>> ELSE <<ending>>)

\* The calls as the handles see them, each with the status it finds; the
\* invocation stops at the first call whose assertion fails.
RECURSIVE callTrace(_, _)
callTrace(status, calls) ==
    IF calls = <<>>
      THEN <<>>
      ELSE LET call == [handle |-> Head(calls), status |-> status]
           IN  IF assert(status = requiredStatus(Head(calls)))
                 THEN <<call>> \o callTrace(leftStatus(Head(calls)), Tail(calls))
                 ELSE <<call>>

\* The last call of the trace failed its assertion.
threw(trace) ==
    /\ trace /= <<>>
    /\ ~assert(trace[Len(trace)].status = requiredStatus(trace[Len(trace)].handle))

\* What the calls of the trace that went through leave of the locals `st`
\* when the ending's call, made without arguments, is one of them.
afterEnding(st, trace, e) ==
    IF e = "return" \/ threw(trace)
      THEN st
    ELSE IF e = "enter"
      THEN [st EXCEPT !.positionStatus = enterPosition(undefined).positionStatus,
                      !.positionDirection = enterPosition(undefined).positionDirection]
      ELSE [st EXCEPT !.positionStatus = exitPosition(undefined, undefined).positionStatus,
                      !.exitPrice = exitPosition(undefined, undefined).exitPrice,
                      !.exitReason = exitPosition(undefined, undefined).exitReason]

\* What one invocation of strategy.exitRule on bar b does with its handle:
\* nothing, exitPosition(), or exitPosition(b.close, "signal").  When the
\* strategy defines no exitRule there is nothing to choose.
ExitRuleMoves(b) ==
    IF strategy.exitRule
      THEN {[calls |-> FALSE, price |-> undefined, reason |-> undefined],
            [calls |-> TRUE, price |-> undefined, reason |-> undefined],
            [calls |-> TRUE, price |-> Some(b.close), reason |-> Some("signal")]}
      ELSE {[calls |-> FALSE, price |-> undefined, reason |-> undefined]}

\* ------------------------------------------------------------------ exitOnCondition
\* A stop that always fills at the stop price, also across a gap.
stopLossFillAtStop(position, b) == Val(position.curStopPrice)

\* The fill of a triggered stop (lines 222 and 228).
stopLossFill(position, b) ==
    IF position.direction = "long"
      THEN Min(Val(position.curStopPrice), b.open)
      ELSE Max(Val(position.curStopPrice), b.open)

\* exitOnCondition with the profit target checked before the stop-loss.
exitOnConditionTargetFirst(position, b, move) ==
    LET stay == [positionStatus |-> "Position", exitPrice |-> exitPrice,
                 exitReason |-> exitReason]
        long == position.direction = "long"
        stopHit ==
            /\ IsDefined(position.curStopPrice)
            /\ IF long THEN b.low <= Val(position.curStopPrice)
                       ELSE b.high >= Val(position.curStopPrice)
        targetHit ==
            /\ IsDefined(position.profitTarget)
            /\ IF long THEN b.high >= Val(position.profitTarget)
                       ELSE b.low <= Val(position.profitTarget)
    IN  IF targetHit
          THEN [st |-> exitPosition(position.profitTarget, Some("profit-target")),
                ruleInvoked |-> FALSE]
        ELSE IF stopHit
          THEN [st |-> exitPosition(Some(stopLossFill(position, b)), Some("stop-loss")),
                ruleInvoked |-> FALSE]
        ELSE IF strategy.exitRule
          THEN [st |-> IF move.calls THEN exitPosition(move.price, move.reason) ELSE stay,
                ruleInvoked |-> TRUE]
        ELSE [st |-> stay, ruleInvoked |-> FALSE]

\* exitOnCondition (lines 216-259), entered with positionStatus = Position.
\* `move` is what exitRule does if it is invoked.  The result is the status,
\* exitPrice and exitReason the function leaves, and whether exitRule ran.
exitOnCondition(position, b, move) ==
    LET stay == [positionStatus |-> "Position", exitPrice |-> exitPrice,
                 exitReason |-> exitReason]
        long == position.direction = "long"
        stopHit ==
            /\ IsDefined(position.curStopPrice)
            /\ IF long THEN b.low <= Val(position.curStopPrice)
                       ELSE b.high >= Val(position.curStopPrice)
        targetHit ==
            /\ IsDefined(position.profitTarget)
            /\ IF long THEN b.high >= Val(position.profitTarget)
                       ELSE b.low <= Val(position.profitTarget)
    IN  IF stopHit
          THEN [st |-> exitPosition(Some(stopLossFill(position, b)), Some("stop-loss")),
                ruleInvoked |-> FALSE]
        ELSE IF targetHit
          THEN [st |-> exitPosition(position.profitTarget, Some("profit-target")),
                ruleInvoked |-> FALSE]
        ELSE IF strategy.exitRule
          THEN [st |-> IF move.calls THEN exitPosition(move.price, move.reason) ELSE stay,
                ruleInvoked |-> TRUE]
        ELSE [st |-> stay, ruleInvoked |-> FALSE]

\* ------------------------------------------------------------------ case Enter
\* A position filled at the close of the entry bar instead of its open.
newPositionAtClose(direction, b) ==
    [direction |-> direction,
     entryTime |-> b.time,
     entryPrice |-> b.close,
     growth |-> FracOne,
     profit |-> 0,
     holdingPeriod |-> 0,
     curRateOfReturn |-> Frac(0, 1),
     initialStopPrice |-> undefined,
     curStopPrice |-> undefined,
     initialUnitRisk |-> undefined,
     initialRiskPct |-> undefined,
     curRiskPct |-> undefined,
     profitTarget |-> undefined,
     riskSeries |-> undefined,
     rateOfReturnSeries |-> undefined,
     stopPriceSeries |-> undefined]

\* The position object built on the entry bar (lines 282-294).
newPosition(direction, b) ==
    [direction |-> direction,
     entryTime |-> b.time,
     entryPrice |-> b.open,
     growth |-> FracOne,
     profit |-> 0,
     holdingPeriod |-> 0,
     curRateOfReturn |-> Frac(0, 1),
     initialStopPrice |-> undefined,
     curStopPrice |-> undefined,
     initialUnitRisk |-> undefined,
     initialRiskPct |-> undefined,
     curRiskPct |-> undefined,
     profitTarget |-> undefined,
     riskSeries |-> undefined,
     rateOfReturnSeries |-> undefined,
     stopPriceSeries |-> undefined]

\* Lines 296-306: the initial stop, `distance` being what strategy.stopLoss returned.
initialStop(position, distance) ==
    IF strategy.stopLoss
      THEN LET stop == IF position.direction = "long"
                         THEN position.entryPrice - distance
                         ELSE position.entryPrice + distance
           IN  [position EXCEPT !.initialStopPrice = Some(stop), !.curStopPrice = Some(stop)]
      ELSE position

\* Lines 308-322: the initial risk and the first sample of riskSeries.
initialRisk(position, b) ==
    IF IsDefined(position.curStopPrice)
      THEN LET unitRisk == IF position.direction = "long"
                             THEN position.entryPrice - Val(position.curStopPrice)
                             ELSE Val(position.curStopPrice) - position.entryPrice
               riskPct == Frac(unitRisk * 100, position.entryPrice)
           IN  [position EXCEPT
                   !.initialUnitRisk = Some(unitRisk),
                   !.initialRiskPct = Some(riskPct),
                   !.curRiskPct = Some(riskPct),
                   !.riskSeries = IF options.recordRisk
                                    THEN Some(<<[time |-> b.time, value |-> riskPct]>>)
                                    ELSE @]
      ELSE position

\* Lines 324-326.
initialRateOfReturnSeries(position) ==
    IF options.recordRateOfReturn
      THEN [position EXCEPT !.rateOfReturnSeries = Some(<<>>)]
      ELSE position

\* Lines 328-337: `distance` is what strategy.profitTarget returned.
initialProfitTarget(position, distance) ==
    IF strategy.profitTarget
      THEN [position EXCEPT !.profitTarget =
                Some(IF position.direction = "long"
                       THEN position.entryPrice + distance
                       ELSE position.entryPrice - distance)]
      ELSE position

\* Lines 344-369: the trailing stop on the entry bar, `distance` being what
\* strategy.trailingStopLoss returned.
entryTrailingStop(position, b, distance) ==
    IF strategy.trailingStopLoss
      THEN LET long == position.direction = "long"
               trailingStopPrice == IF long THEN b.close - distance ELSE b.close + distance
               initial ==
                   IF ~IsDefined(position.initialStopPrice)
                     THEN undefined
                     ELSE Some(IF long
                                 THEN Max(Val(position.initialStopPrice), trailingStopPrice)
                                 ELSE Min(Val(position.initialStopPrice), trailingStopPrice))
               cur == IF IsDefined(initial) THEN Val(initial) ELSE trailingStopPrice
           IN  [position EXCEPT
                   !.initialStopPrice = initial,
                   !.curStopPrice = Some(cur),
                   !.stopPriceSeries = IF options.recordStopPrice
                                         THEN Some(<<[time |-> b.time, value |-> cur]>>)
                                         ELSE @]
      ELSE position

\* ------------------------------------------------------------------ case Position
\* The re-evaluated stop without the floor of the initial stop.
trailingStopPriceNoFloor(position, b, distance) ==
    IF position.direction = "long" THEN b.close - distance ELSE b.close + distance

\* Lines 411-417: the re-evaluated stop.  `initialStopPrice ? ... : ...` tests
\* truthiness, so an initial stop of 0 counts as none.
trailingStopPrice(position, b, distance) ==
    IF position.direction = "long"
      THEN LET newTrailingStopPrice == b.close - distance
           IN  IF Truthy(position.initialStopPrice)
                 THEN Max(Val(position.initialStopPrice), newTrailingStopPrice)
                 ELSE newTrailingStopPrice
      ELSE LET newTrailingStopPrice == b.close + distance
           IN  IF Truthy(position.initialStopPrice)
                 THEN Min(Val(position.initialStopPrice), newTrailingStopPrice)
                 ELSE newTrailingStopPrice

\* ------------------------------------------------------------------ the run
\* The parameters of a run that only enter the figures a run produces (the
\* series it records, the growth of a trade, the time stamps) and never decide
\* which rule runs: the three flags of IBacktestOptions, strategy.fees() (line
\* 152, 0 when the strategy gives none) and the interval between bars.  A run
\* takes them all at their first value, or all at their second value but one:
\* every value of each, and every pair of values of two of them, occurs.
Profiles ==
    LET first == [recordStopPrice |-> FALSE, recordRisk |-> FALSE,
                  recordRateOfReturn |-> FALSE, fees |-> Frac(0, 1), interval |-> 1]
        second == [recordStopPrice |-> TRUE, recordRisk |-> TRUE,
                   recordRateOfReturn |-> TRUE, fees |-> Frac(1, 10),
                   interval |-> MaxInterval]
    IN  {first} \cup {[second EXCEPT ![f] = first[f]] : f \in DOMAIN second}

\* Line 126.
lookbackPeriod == strategy.lookbackPeriod

NoCheck == [ran |-> FALSE, bar |-> null, ruleInvoked |-> FALSE, direction |-> "long",
            stop |-> undefined, target |-> undefined, exitPrice |-> undefined,
            exitReason |-> undefined]

\* What exitOnCondition was given (the bar, and the stop and target then in
\* force), whether it invoked exitRule, and the exit it recorded.
Checked(position, b, ex) ==
    [ran |-> TRUE, bar |-> b, ruleInvoked |-> ex.ruleInvoked,
     direction |-> position.direction,
     stop |-> position.curStopPrice, target |-> position.profitTarget,
     exitPrice |-> ex.st.exitPrice, exitReason |-> ex.st.exitReason]

\* What a callback returning a distance may return, when the strategy defines it.
Returned(defined) == IF defined THEN strategy.distances ELSE {0}

\* What one invocation of strategy.entryRule does with its handle: nothing, or
\* one call enterPosition({direction}).
EntryRuleMoves ==
    {[calls |-> FALSE, direction |-> undefined]}
    \cup {[calls |-> TRUE, direction |-> d] : d \in {undefined} \cup {Some(x) : x \in Directions}}

\* analyze is not part of backtest: no call of it is under way during a backtest.
NotCalled == [pc |-> "idle"]

\* new CBuffer(size) (line 180): `data` is an array of `size` empty slots, the
\* storage of the ring (JavaScript index k is data[k + 1] here); `end` is the
\* index of the newest item.
CBuffer(size) ==
    [data |-> [k \in 1..size |-> undefined], end |-> size - 1, length |-> 0]

\* The locals of backtest before the loop (lines 157-180).
StartOfRun ==
    /\ pc = "loop"
    /\ barCount = 0
    /\ firstTime = 0
    /\ bar = null
    /\ lookbackBuffer = CBuffer(lookbackPeriod)
    /\ positionStatus = "None"
    /\ positionDirection = "long"
    /\ openPosition = null
    /\ exitPrice = undefined
    /\ exitReason = undefined
    /\ completedTrades = <<>>
    /\ dispatched = "start"
    /\ intrabar = NoCheck
    /\ handleCalls = <<>>

Init ==
    /\ \E p \in Profiles :
          /\ strategy \in [lookbackPeriod : 1..MaxLookback, stopLoss : BOOLEAN,
                           trailingStopLoss : BOOLEAN, profitTarget : BOOLEAN,
                           exitRule : BOOLEAN, fees : {p.fees},
                           distances : {Distances}]
          /\ options = [recordStopPrice |-> p.recordStopPrice,
                        recordRisk |-> p.recordRisk,
                        recordRateOfReturn |-> p.recordRateOfReturn]
          /\ interval = p.interval
    /\ priceCap = MaxPrice
    /\ barCap = MaxBars
    /\ StartOfRun
    /\ analyzer = NotCalled

\* CBuffer.push of one item (line 262): the item is stored in the slot after
\* `end`, wrapping around, where it overwrites the oldest item of a full buffer.
\* The buffer holds references to bars; a bar is identified by its time.
push(buffer, b) ==
    LET size == Len(buffer.data)
        slot == (buffer.end + 1) % size
    IN  [data |-> [buffer.data EXCEPT ![slot + 1] = Some(b)],
         end |-> slot,
         length |-> Min(buffer.length + 1, size)]

\* Lines 261-262: the loop takes the next bar of the series.
TakeBar(b) ==
    /\ pc = "loop"
    /\ barCount < barCap
    /\ barCount' = barCount + 1
    /\ firstTime' = IF barCount = 0 THEN b.time ELSE firstTime
    /\ bar' = b
    /\ lookbackBuffer' = push(lookbackBuffer, b.time)
    /\ UNCHANGED interval

\* Lines 264-266: no rule runs until the lookback buffer is full.  The buffer
\* holds lookbackBuffer.length + 1 bars after the push while it is filling.
BarLookback ==
    /\ lookbackBuffer.length + 1 < lookbackPeriod
    /\ \E b \in NextBars :
        /\ TakeBar(b)
        /\ dispatched' = "continue"
        /\ handleCalls' = <<>>
        /\ UNCHANGED <<analyzer, barCap, strategy, options, priceCap, pc, positionStatus, positionDirection,
                       openPosition, exitPrice, exitReason, completedTrades, intrabar>>

\* The handle calls of entryRule on a bar in None, and the locals it leaves:
\* its move, then its ending.
EntryRuleTraces ==
    [calls \in BOOLEAN, e \in RuleEndings |->
        callTrace("None", callsOf(IF calls THEN "enter" ELSE "none", e))]
entryRuleTrace(move, e) == EntryRuleTraces[move.calls, e]

entryRuleOutcome(move, e) ==
    LET trace == entryRuleTrace(move, e)
        moved == IF move.calls
                   THEN [positionStatus |-> enterPosition(move.direction).positionStatus,
                         positionDirection |-> enterPosition(move.direction).positionDirection,
                         exitPrice |-> exitPrice, exitReason |-> exitReason]
                   ELSE [positionStatus |-> positionStatus,
                         positionDirection |-> positionDirection,
                         exitPrice |-> exitPrice, exitReason |-> exitReason]
    IN  [trace |-> trace, st |-> afterEnding(moved, trace, e)]

\* What the invocations of entryRule on a bar in None can come to.
EntryRuleOutcomes ==
    {entryRuleOutcome(move, e) : move \in EntryRuleMoves, e \in RuleEndings}

\* Lines 271-277: case None, entryRule is invoked and returns.
BarNone ==
    /\ lookbackBuffer.length + 1 >= lookbackPeriod
    /\ positionStatus = "None"
    /\ \E b \in NextBars :
        /\ TakeBar(b)
        /\ \E out \in EntryRuleOutcomes :
           /\ ~threw(out.trace)
           /\ handleCalls' = out.trace
           /\ positionStatus' = out.st.positionStatus
           /\ positionDirection' = out.st.positionDirection
           /\ exitPrice' = out.st.exitPrice
           /\ exitReason' = out.st.exitReason
        /\ dispatched' = "None"
        /\ UNCHANGED <<analyzer, barCap, strategy, options, priceCap, pc, openPosition, completedTrades, intrabar>>

\* Lines 271-277 when an assertion of a handle fails inside entryRule: the
\* AssertionError leaves backtest, no trade list is returned.  The locals are
\* as the calls before the failing one left them.
BarNoneAsserts ==
    /\ lookbackBuffer.length + 1 >= lookbackPeriod
    /\ positionStatus = "None"
    /\ \E b \in NextBars :
        /\ TakeBar(b)
        /\ \E out \in EntryRuleOutcomes :
           /\ threw(out.trace)
           /\ handleCalls' = out.trace
           /\ positionStatus' = out.st.positionStatus
           /\ positionDirection' = out.st.positionDirection
           /\ exitPrice' = out.st.exitPrice
           /\ exitReason' = out.st.exitReason
        /\ pc' = "AssertionError"
        /\ dispatched' = "None"
        /\ UNCHANGED <<analyzer, barCap, strategy, options, priceCap, openPosition, completedTrades, intrabar>>

\* What exitRule may do after its move; nothing when there is no exitRule.
ExitRuleEndings == IF strategy.exitRule THEN RuleEndings ELSE {"return"}

\* The handle calls of exitRule when exitOnCondition invokes it, and the
\* locals exitOnCondition leaves when exitRule, if it invoked it, has made its
\* move `ex` and then its ending.
ExitRuleTraces ==
    [calls \in BOOLEAN, e \in RuleEndings |->
        callTrace("Position", callsOf(IF calls THEN "exit" ELSE "none", e))]
exitRuleTrace(move, e) == ExitRuleTraces[move.calls, e]

exitRuleOutcome(ex, move, e) ==
    LET trace == IF ex.ruleInvoked THEN exitRuleTrace(move, e) ELSE <<>>
        moved == [positionStatus |-> ex.st.positionStatus,
                  positionDirection |-> positionDirection,
                  exitPrice |-> ex.st.exitPrice, exitReason |-> ex.st.exitReason]
    IN  [trace |-> trace,
         st |-> IF ex.ruleInvoked THEN afterEnding(moved, trace, e) ELSE moved]

\* The moves and endings open to exitRule on bar b: where exitOnCondition
\* returns before it reaches exitRule there is nothing to choose.
NoMove == [calls |-> FALSE, price |-> undefined, reason |-> undefined]
ExitRuleRuns(position, b) ==
    IF exitOnCondition(position, b, NoMove).ruleInvoked
      THEN ExitRuleMoves(b) \X ExitRuleEndings
      ELSE {<<NoMove, "return">>}

\* Lines 282-337: the position opened on bar b.
openedPosition(b, stopDistance, profitDistance) ==
    initialProfitTarget(
        initialRateOfReturnSeries(
            initialRisk(initialStop(newPosition(positionDirection, b), stopDistance), b)),
        profitDistance)

\* Lines 279-376: case Enter, the position is opened on this bar.
BarEnter ==
    /\ lookbackBuffer.length + 1 >= lookbackPeriod
    /\ positionStatus = "Enter"
    /\ openPosition = null
    /\ \E b \in NextBars,
          stopDistance \in Returned(strategy.stopLoss),
          profitDistance \in Returned(strategy.profitTarget),
          trailingStopDistance \in Returned(strategy.trailingStopLoss) :
        /\ TakeBar(b)
        /\ \E run \in ExitRuleRuns(openedPosition(b, stopDistance, profitDistance), b) :
           /\ ~threw(exitRuleTrace(run[1], run[2]))
           /\ LET opened == openedPosition(b, stopDistance, profitDistance)
                  ex == exitOnCondition(opened, b, run[1])
                  out == exitRuleOutcome(ex, run[1], run[2])
              IN  /\ handleCalls' = out.trace
                  /\ positionStatus' = out.st.positionStatus
                  /\ positionDirection' = out.st.positionDirection
                  /\ exitPrice' = out.st.exitPrice
                  /\ exitReason' = out.st.exitReason
                  /\ intrabar' = Checked(opened, b, ex)
                  /\ openPosition' = entryTrailingStop(opened, b, trailingStopDistance)
        /\ dispatched' = "Enter"
        /\ UNCHANGED <<analyzer, barCap, strategy, options, priceCap, pc, completedTrades>>

\* Lines 279-342 when an assertion of a handle fails inside exitRule on the
\* entry bar: the rest of the case (the trailing stop) does not run.
BarEnterAsserts ==
    /\ lookbackBuffer.length + 1 >= lookbackPeriod
    /\ positionStatus = "Enter"
    /\ openPosition = null
    /\ \E b \in NextBars,
          stopDistance \in Returned(strategy.stopLoss),
          profitDistance \in Returned(strategy.profitTarget) :
        /\ TakeBar(b)
        /\ \E run \in ExitRuleRuns(openedPosition(b, stopDistance, profitDistance), b) :
           /\ threw(exitRuleTrace(run[1], run[2]))
           /\ LET opened == openedPosition(b, stopDistance, profitDistance)
                  ex == exitOnCondition(opened, b, run[1])
                  out == exitRuleOutcome(ex, run[1], run[2])
              IN  /\ ex.ruleInvoked
                  /\ handleCalls' = out.trace
                  /\ positionStatus' = out.st.positionStatus
                  /\ positionDirection' = out.st.positionDirection
                  /\ exitPrice' = out.st.exitPrice
                  /\ exitReason' = out.st.exitReason
                  /\ intrabar' = Checked(opened, b, ex)
                  /\ openPosition' = opened
        /\ pc' = "AssertionError"
        /\ dispatched' = "Enter"
        /\ UNCHANGED <<analyzer, barCap, strategy, options, priceCap, completedTrades>>

\* Lines 382-395: the samples appended on a bar in Position.  Pushing onto a
\* series that was never created is a TypeError.
samplesThrow(position) ==
    \/ IsDefined(position.curRiskPct) /\ options.recordRisk
          /\ ~IsDefined(position.riskSeries)
    \/ options.recordRateOfReturn /\ ~IsDefined(position.rateOfReturnSeries)

\* recordSamples that leaves the rate of return of the bar out.
recordSamplesNoRate(position, b) ==
    [position EXCEPT
        !.riskSeries =
            IF IsDefined(position.curRiskPct) /\ options.recordRisk
              THEN Some(Append(Val(@), [time |-> b.time, value |-> Val(position.curRiskPct)]))
              ELSE @]

recordSamples(position, b) ==
    [position EXCEPT
        !.riskSeries =
            IF IsDefined(position.curRiskPct) /\ options.recordRisk
              THEN Some(Append(Val(@), [time |-> b.time, value |-> Val(position.curRiskPct)]))
              ELSE @,
        !.rateOfReturnSeries =
            IF options.recordRateOfReturn
              THEN Some(Append(Val(@), [time |-> b.time, value |-> position.curRateOfReturn]))
              ELSE @]

\* Lines 399-426: the trailing stop re-evaluated on a bar in Position,
\* `distance` being what strategy.trailingStopLoss returned.
positionTrailingStop(position, b, distance) ==
    IF strategy.trailingStopLoss
      THEN LET cur == trailingStopPrice(position, b, distance)
           IN  [position EXCEPT
                   !.curStopPrice = Some(cur),
                   !.stopPriceSeries = IF options.recordStopPrice
                                         THEN Some(Append(Val(@), [time |-> b.time, value |-> cur]))
                                         ELSE @]
      ELSE position

\* Lines 378-432: case Position.
BarPosition ==
    /\ lookbackBuffer.length + 1 >= lookbackPeriod
    /\ positionStatus = "Position"
    /\ openPosition /= null
    /\ \E b \in NextBars,
          trailingStopDistance \in Returned(strategy.trailingStopLoss) :
        /\ TakeBar(b)
        /\ ~samplesThrow(updatePosition(openPosition, b))
        /\ \E run \in ExitRuleRuns(recordSamples(updatePosition(openPosition, b), b), b) :
           /\ ~threw(exitRuleTrace(run[1], run[2]))
           /\ LET sampled == recordSamples(updatePosition(openPosition, b), b)
                  ex == exitOnCondition(sampled, b, run[1])
                  out == exitRuleOutcome(ex, run[1], run[2])
              IN  /\ handleCalls' = out.trace
                  /\ positionStatus' = out.st.positionStatus
                  /\ positionDirection' = out.st.positionDirection
                  /\ exitPrice' = out.st.exitPrice
                  /\ exitReason' = out.st.exitReason
                  /\ intrabar' = Checked(sampled, b, ex)
                  /\ openPosition' = positionTrailingStop(sampled, b, trailingStopDistance)
        /\ dispatched' = "Position"
        /\ UNCHANGED <<analyzer, barCap, strategy, options, priceCap, pc, completedTrades>>

\* Lines 378-397 when an assertion of a handle fails inside exitRule: the
\* rest of the case (the trailing stop) does not run.
BarPositionAsserts ==
    /\ lookbackBuffer.length + 1 >= lookbackPeriod
    /\ positionStatus = "Position"
    /\ openPosition /= null
    /\ \E b \in NextBars :
        /\ TakeBar(b)
        /\ ~samplesThrow(updatePosition(openPosition, b))
        /\ \E run \in ExitRuleRuns(recordSamples(updatePosition(openPosition, b), b), b) :
           /\ threw(exitRuleTrace(run[1], run[2]))
           /\ LET sampled == recordSamples(updatePosition(openPosition, b), b)
                  ex == exitOnCondition(sampled, b, run[1])
                  out == exitRuleOutcome(ex, run[1], run[2])
              IN  /\ ex.ruleInvoked
                  /\ handleCalls' = out.trace
                  /\ positionStatus' = out.st.positionStatus
                  /\ positionDirection' = out.st.positionDirection
                  /\ exitPrice' = out.st.exitPrice
                  /\ exitReason' = out.st.exitReason
                  /\ intrabar' = Checked(sampled, b, ex)
                  /\ openPosition' = sampled
        /\ pc' = "AssertionError"
        /\ dispatched' = "Position"
        /\ UNCHANGED <<analyzer, barCap, strategy, options, priceCap, completedTrades>>

\* Lines 381-395 when a push hits a series that does not exist: the TypeError
\* leaves backtest, no trade list is returned.
BarPositionThrows ==
    /\ lookbackBuffer.length + 1 >= lookbackPeriod
    /\ positionStatus = "Position"
    /\ openPosition /= null
    /\ \E b \in NextBars :
        /\ TakeBar(b)
        /\ samplesThrow(updatePosition(openPosition, b))
        /\ pc' = "TypeError"
        /\ dispatched' = "Position"
        /\ handleCalls' = <<>>
        /\ UNCHANGED <<analyzer, barCap, strategy, options, priceCap, positionStatus, positionDirection, openPosition,
                       exitPrice, exitReason, completedTrades, intrabar>>

\* closePosition that forgets to reset openPosition.
closePositionKeepsPosition(b, price, reason) ==
    [completedTrades |-> Append(completedTrades,
                                finalizePosition(openPosition, b.time, price, reason,
                                                 strategy.fees)),
     openPosition |-> openPosition,
     positionStatus |-> "None",
     exitPrice |-> undefined,
     exitReason |-> undefined]

\* closePosition that stamps the trade with the entry time, not the bar's.
closePositionAtEntryTime(b, price, reason) ==
    [completedTrades |-> Append(completedTrades,
                                finalizePosition(openPosition, openPosition.entryTime,
                                                 price, reason, strategy.fees)),
     openPosition |-> null,
     positionStatus |-> "None",
     exitPrice |-> undefined,
     exitReason |-> undefined]

\* closePosition that leaves the status at Enter: the next bar opens a position.
closePositionReenters(b, price, reason) ==
    [completedTrades |-> Append(completedTrades,
                                finalizePosition(openPosition, b.time, price, reason,
                                                 strategy.fees)),
     openPosition |-> null,
     positionStatus |-> "Enter",
     exitPrice |-> undefined,
     exitReason |-> undefined]

\* closePosition (lines 206-214).
closePosition(b, price, reason) ==
    [completedTrades |-> Append(completedTrades,
                                finalizePosition(openPosition, b.time, price, reason,
                                                 strategy.fees)),
     openPosition |-> null,
     positionStatus |-> "None",
     exitPrice |-> undefined,
     exitReason |-> undefined]

\* Lines 434-438: case Exit.
BarExit ==
    /\ lookbackBuffer.length + 1 >= lookbackPeriod
    /\ positionStatus = "Exit"
    /\ openPosition /= null
    /\ \E b \in NextBars :
        /\ TakeBar(b)
        /\ LET closed == closePosition(b,
                             IF IsDefined(exitPrice) THEN Val(exitPrice) ELSE b.open,
                             IF IsDefined(exitReason) THEN Val(exitReason) ELSE "exit-rule")
           IN  /\ completedTrades' = closed.completedTrades
               /\ openPosition' = closed.openPosition
               /\ positionStatus' = closed.positionStatus
               /\ exitPrice' = closed.exitPrice
               /\ exitReason' = closed.exitReason
        /\ dispatched' = "Exit"
        /\ handleCalls' = <<>>
        /\ UNCHANGED <<analyzer, barCap, strategy, options, priceCap, pc, positionDirection, intrabar>>

\* Math.round of the quotient a / n, for a >= 0 and n > 0.
round(a, n) == (2 * a + n) \div (2 * n)

\* The quotient truncated instead of rounded.
timeframeTruncated(first, last, count) == (last - first) \div count

\* Line 131.
timeframe(first, last, count) == round(last - first, count)

\* Lines 445-452: the series is exhausted; an open position is finalized and
\* the trades are returned.  A series shorter than the lookback period never
\* reaches the loop (lines 122-129).
EndOfSeries ==
    /\ pc = "loop"
    /\ barCount >= lookbackPeriod
    /\ pc' = "done"
    /\ completedTrades' =
          IF openPosition /= null
            THEN Append(completedTrades,
                        finalizePosition(openPosition,
                                         bar.time + timeframe(firstTime, bar.time, barCount),
                                         bar.close, "finalize", strategy.fees))
            ELSE completedTrades
    /\ dispatched' = "return"
    /\ UNCHANGED <<analyzer, barCap, strategy, options, priceCap, barCount, interval, firstTime, bar, lookbackBuffer,
                   positionStatus, positionDirection, openPosition, exitPrice, exitReason,
                   intrabar, handleCalls>>

Next ==
    \/ BarLookback
    \/ BarNone
    \/ BarNoneAsserts
    \/ BarEnter
    \/ BarEnterAsserts
    \/ BarPosition
    \/ BarPositionAsserts
    \/ BarPositionThrows
    \/ BarExit
    \/ EndOfSeries

Spec == Init /\ [][Next]_vars

\* The runs that study stops, on series whose prices range over
\* 1..MaxStopPrice and with distances from 0..MaxStopDist: a strategy with a stop-loss, with or without a trailing
\* stop, that trades from the first bar and has no exitRule; and a strategy
\* with a trailing stop, with or without a stop-loss, and an exitRule, after
\* the longest lookback.  The
\* risk is recorded, nothing else is; there are no fees and no profit target.
InitStops ==
    /\ strategy \in {st \in [lookbackPeriod : 1..MaxLookback, stopLoss : BOOLEAN,
                              trailingStopLoss : BOOLEAN, profitTarget : {FALSE},
                              exitRule : BOOLEAN, fees : {Frac(0, 1)},
                              distances : {0..MaxStopDist}] :
                         \/ st.lookbackPeriod = 1 /\ st.stopLoss /\ ~st.exitRule
                         \/ /\ st.lookbackPeriod = MaxLookback
                            /\ st.trailingStopLoss /\ st.exitRule}
    /\ options = [recordStopPrice |-> FALSE, recordRisk |-> TRUE,
                  recordRateOfReturn |-> FALSE]
    /\ interval = 1
    /\ priceCap = MaxStopPrice
    /\ barCap = MaxBars
    /\ StartOfRun
    /\ analyzer = NotCalled

SpecStops == InitStops /\ [][Next]_vars

\* ================================================================== properties
Trades == {completedTrades[i] : i \in 1..Len(completedTrades)}
LastTrade == completedTrades[Len(completedTrades)]
\* The step consumes a bar.
BarStep == barCount' = barCount + 1

\* The status and the open position agree.
StatusAgrees ==
    IF positionStatus \in {"None", "Enter"} THEN openPosition = null ELSE openPosition /= null

\* The moves of the status from one bar start to the next.
StatusMoves ==
    {<<"None", "None">>, <<"None", "Enter">>, <<"Enter", "Position">>, <<"Enter", "Exit">>,
     <<"Position", "Position">>, <<"Position", "Exit">>, <<"Exit", "None">>}

\* C1: at the start of every bar the status and the open position agree (no
\* position in None and Enter, one in Position and Exit), and from one bar start
\* to the next the status only moves None->None|Enter, Enter->Position|Exit,
\* Position->Position|Exit, Exit->None: a position is opened only when none is
\* open, after the previous one was closed.
C1_StatusMachine ==
    [][/\ StatusAgrees /\ StatusAgrees'
       /\ BarStep /\ lookbackBuffer.length + 1 >= strategy.lookbackPeriod
            => <<positionStatus, positionStatus'>> \in StatusMoves
       /\ openPosition = null /\ openPosition' /= null => positionStatus = "Enter"]_vars

\* C1 witness: a position was closed on this bar and the status is back to None.
C1_Witness ==
    /\ dispatched = "Exit" /\ positionStatus = "None" /\ openPosition = null
    /\ Len(completedTrades) = 1

\* C2: when entryRule calls the enter handle on a bar, no position is opened on
\* that bar; on the next bar the position is opened with entryPrice = that
\* bar's open and entryTime = that bar's time.
C2_DeferredFill ==
    [][/\ positionStatus = "None" /\ positionStatus' = "Enter" => openPosition' = null
       /\ positionStatus = "Enter" /\ BarStep
            => /\ openPosition = null /\ openPosition' /= null
               /\ openPosition'.entryPrice = bar'.open
               /\ openPosition'.entryTime = bar'.time
               /\ openPosition'.direction = positionDirection]_vars

\* C2 witness: a short position has just been opened on a bar whose open
\* differs from its close.
C2_Witness ==
    /\ dispatched = "Enter" /\ openPosition /= null
    /\ bar.open /= bar.close /\ openPosition.entryPrice = bar.open
    /\ openPosition.direction = "short"

\* The stop-loss and profit-target conditions of the claims, on what the last
\* intrabar check was given.
StopTriggered ==
    /\ IsDefined(intrabar.stop)
    /\ IF intrabar.direction = "long" THEN intrabar.bar.low <= Val(intrabar.stop)
                                      ELSE intrabar.bar.high >= Val(intrabar.stop)
TargetTriggered ==
    /\ IsDefined(intrabar.target)
    /\ IF intrabar.direction = "long" THEN intrabar.bar.high >= Val(intrabar.target)
                                      ELSE intrabar.bar.low <= Val(intrabar.target)

\* C3: the intrabar check runs on the entry bar and on every bar in Position;
\* there the stop-loss wins over the profit target, the profit target over
\* exitRule, and exitRule is invoked only on a bar where neither triggered.
C3_ExitOrdering ==
    /\ dispatched \in {"Enter", "Position"} /\ pc = "loop"
         => intrabar.ran /\ intrabar.bar = bar
    /\ intrabar.ran =>
         /\ StopTriggered
              => intrabar.exitReason = Some("stop-loss") /\ ~intrabar.ruleInvoked
         /\ ~StopTriggered /\ TargetTriggered
              => intrabar.exitReason = Some("profit-target") /\ ~intrabar.ruleInvoked
         /\ ~StopTriggered /\ ~TargetTriggered
              => /\ intrabar.ruleInvoked = strategy.exitRule
                 /\ intrabar.exitReason \notin {Some("stop-loss"), Some("profit-target")}

\* C3 witness: a bar triggered both the stop-loss and the profit target of a
\* strategy that has an exitRule.
C3_Witness ==
    /\ intrabar.ran /\ StopTriggered /\ TargetTriggered /\ strategy.exitRule
    /\ dispatched = "Position"

\* The fill the claim gives a triggered stop: the stop price, or the open of
\* the bar when the bar opened beyond the stop.
ClaimedFill ==
    IF intrabar.direction = "long"
      THEN (IF Val(intrabar.stop) <= intrabar.bar.open THEN Val(intrabar.stop)
                                                       ELSE intrabar.bar.open)
      ELSE (IF Val(intrabar.stop) >= intrabar.bar.open THEN Val(intrabar.stop)
                                                       ELSE intrabar.bar.open)

\* What C5 says of a state: the stop-loss exit is recorded exactly when the
\* bar reaches the stop given to the check, at the claimed fill; and the trade
\* closed on the bar after a triggered stop carries that reason and price.
StopLossFillState ==
    /\ intrabar.ran =>
         /\ StopTriggered <=> intrabar.exitReason = Some("stop-loss")
         /\ StopTriggered => intrabar.exitPrice = Some(ClaimedFill)
    /\ dispatched = "Exit" /\ StopTriggered
         => /\ LastTrade.exitReason = "stop-loss"
            /\ LastTrade.exitPrice = ClaimedFill
            /\ LastTrade.exitTime = bar.time
            /\ intrabar.bar.time < bar.time

\* C5: a Long triggers when bar.low <= cur_stop_price and fills at
\* min(cur_stop_price, bar.open), a Short when bar.high >= cur_stop_price and
\* fills at max(cur_stop_price, bar.open), cur_stop_price being the stop in
\* force at the start of the trigger bar (on a bar in Position, the stop the
\* position had when the bar began); the trade closed on the following bar has
\* exit_reason "stop-loss" and that exit price.
C5_StopLossFill ==
    [][/\ StopLossFillState'
       /\ positionStatus = "Position" /\ BarStep /\ pc' = "loop"
            => intrabar'.stop = openPosition.curStopPrice /\ intrabar'.bar = bar'
       /\ positionStatus = "Exit" /\ BarStep
            => exitReason = intrabar.exitReason /\ exitPrice = intrabar.exitPrice]_vars

\* C5 witness: a long position stopped out across a gap (the bar opened below
\* the stop) has been closed at the open of the trigger bar.
C5_Witness ==
    /\ dispatched = "Exit" /\ StopTriggered /\ intrabar.direction = "long"
    /\ intrabar.bar.open < Val(intrabar.stop)
    /\ LastTrade.exitPrice = intrabar.bar.open /\ LastTrade.exitReason = "stop-loss"

\* Math.round((last - first) / count) stated by its bounds: the integer k with
\* k - 1/2 <= (last - first) / count < k + 1/2.
IsRounded(k, a, n) == 2 * n * k <= 2 * a + n /\ 2 * a + n < 2 * n * (k + 1)

\* C6: when the loop ends with a position open, exactly one trade is appended,
\* closed at the last bar's close, at the last bar's time plus the timeframe
\* round((last.time - first.time) / count), with reason "finalize"; with no
\* position open the trade list is returned as it is.
C6_EndOfSeries ==
    [][pc = "loop" /\ pc' = "done" =>
         IF openPosition /= null
           THEN /\ Len(completedTrades') = Len(completedTrades) + 1
                /\ SubSeq(completedTrades', 1, Len(completedTrades)) = completedTrades
                /\ LastTrade'.exitPrice = bar.close
                /\ LastTrade'.exitReason = "finalize"
                /\ LastTrade'.entryTime = openPosition.entryTime
                /\ \E k \in 0..(bar.time + 1) :
                      /\ IsRounded(k, bar.time - firstTime, barCount)
                      /\ LastTrade'.exitTime = bar.time + k
           ELSE completedTrades' = completedTrades]_vars

\* C6 witness: a run has returned with a finalized trade whose exit time is two
\* time units after the last bar (a quotient of 3/2 rounded up).
C6_Witness ==
    /\ pc = "done" /\ openPosition /= null
    /\ LastTrade.exitReason = "finalize"
    /\ LastTrade.exitTime - bar.time = 2 /\ bar.close /= bar.open

\* C7: every trade, closed on an Exit bar or finalized at the end of the series,
\* has exit_time > entry_time and holding_period >= 1.
C7_TradeDuration ==
    \A t \in Trades : t.exitTime > t.entryTime /\ t.holdingPeriod >= 1

\* C7 witness: a position entered on the last bar of a two-bar series, one
\* time unit after the first, has been finalized.
C7_Witness ==
    /\ pc = "done" /\ barCount = 2 /\ interval = 1 /\ Len(completedTrades) = 1
    /\ LastTrade.entryTime = bar.time /\ LastTrade.exitTime = bar.time + 1

\* C4: while a position with a trailing stop is open, cur_stop_price only
\* tightens from bar to bar: it never decreases for a Long and never increases
\* for a Short, with or without an initial stop.
C4_TrailingStopRatchet ==
    [][/\ strategy.trailingStopLoss
       /\ openPosition /= null /\ openPosition' /= null
       /\ IsDefined(openPosition.curStopPrice) /\ IsDefined(openPosition'.curStopPrice)
       => IF openPosition.direction = "long"
            THEN Val(openPosition'.curStopPrice) >= Val(openPosition.curStopPrice)
            ELSE Val(openPosition'.curStopPrice) <= Val(openPosition.curStopPrice)]_vars

\* C8 as stated: with record_rate_of_return on, every closed trade has
\* |rate_of_return_series| = holding_period + 1.
C8_RateSeriesLengthPlusOne ==
    options.recordRateOfReturn =>
        \A t \in Trades : /\ IsDefined(t.rateOfReturnSeries)
                          /\ Len(Val(t.rateOfReturnSeries)) = t.holdingPeriod + 1

\* C8 amended: with record_rate_of_return on, every closed trade has
\* |rate_of_return_series| = holding_period: one sample for each bar the
\* position was updated on and one appended at close, the close being counted
\* in holding_period as well.
C8_RateSeriesLength ==
    options.recordRateOfReturn =>
        \A t \in Trades : /\ IsDefined(t.rateOfReturnSeries)
                          /\ Len(Val(t.rateOfReturnSeries)) = t.holdingPeriod

\* C8 witness: a trade held over a bar in Position and closed on an Exit bar,
\* with its rate of return recorded.
C8_Witness ==
    /\ options.recordRateOfReturn /\ dispatched = "Exit"
    /\ LastTrade.holdingPeriod = 2 /\ Len(Val(LastTrade.rateOfReturnSeries)) = 2

\* C9: with record_risk on, a run of a strategy that uses a stop (stopLoss,
\* trailingStopLoss or both) completes, and every closed trade has
\* |risk_series| = holding_period.
C9_RiskSeriesLength ==
    options.recordRisk /\ (strategy.stopLoss \/ strategy.trailingStopLoss) =>
        /\ pc /= "TypeError"
        /\ \A t \in Trades : /\ IsDefined(t.riskSeries)
                             /\ Len(Val(t.riskSeries)) = t.holdingPeriod

\* C10: for every trade each sample vector exists if and only if its option
\* flag was set, whatever stop callbacks the strategy defines.
C10_SeriesIffFlag ==
    \A t \in Trades :
        /\ IsDefined(t.riskSeries) <=> options.recordRisk
        /\ IsDefined(t.rateOfReturnSeries) <=> options.recordRateOfReturn
        /\ IsDefined(t.stopPriceSeries) <=> options.recordStopPrice

\* Two fractions denote the same number (denominators are not zero).
FracEq(a, b) == a.n * b.d = b.n * a.d

\* The growth of a move from entry to price before fees: price / entry for a
\* Long, (2 * entry - price) / entry for a Short.
RawGrowth(direction, entry, price) ==
    IF direction = "long" THEN Frac(price, entry) ELSE Frac(2 * entry - price, entry)

\* C11: fees are applied once, at close: every trade's growth is
\* raw_growth * (1 - fees), raw_growth being exit_price / entry_price for a Long
\* and (2 * entry_price - exit_price) / entry_price for a Short; the growth of
\* an open position marked to a bar's open carries no fees.  (Entry and exit
\* prices do not depend on the fees, so with fees f instead of 0 every trade's
\* growth is scaled by 1 - f.)
C11_FeesOnceAtClose ==
    /\ \A t \in Trades :
          FracEq(t.growth, FracMul(RawGrowth(t.direction, t.entryPrice, t.exitPrice),
                                   FracSub(FracOne, strategy.fees)))
    /\ openPosition /= null /\ dispatched = "Position" /\ pc = "loop"
          => FracEq(openPosition.growth,
                    RawGrowth(openPosition.direction, openPosition.entryPrice, bar.open))
    /\ openPosition /= null /\ dispatched = "Enter"
          => FracEq(openPosition.growth, FracOne)

\* C11 witness: with fees charged, a trade that was marked to market on a bar
\* in Position has been closed at a price other than its entry price.
C11_Witness ==
    /\ strategy.fees.n /= 0 /\ dispatched = "Exit"
    /\ LastTrade.holdingPeriod = 2 /\ LastTrade.exitPrice /= LastTrade.entryPrice
    /\ ~FracEq(LastTrade.growth, FracOne)

\* A handle was called in a status its contract excludes: the enter handle
\* when the status was not None, or the exit handle when it was not Position.
HandleMisused ==
    \E i \in 1..Len(handleCalls) :
        \/ handleCalls[i].handle = "enter" /\ handleCalls[i].status /= "None"
        \/ handleCalls[i].handle = "exit" /\ handleCalls[i].status /= "Position"

\* C12: when a rule calls the enter handle while the status is not None, or
\* the exit handle while it is not Position, the call fails with an error that
\* leaves backtest: the run is over on that bar, it never returns a trade list,
\* and no run goes on after such a call.
C12_HandleMisuseTerminates ==
    [][/\ HandleMisused' => pc' = "AssertionError"
       /\ pc = "AssertionError" => pc' = "AssertionError" /\ UNCHANGED completedTrades]_vars

\* C12 witness: exitRule called its exit handle twice on a bar in Position;
\* the second call found the status Exit and the run ended with the error.
C12_Witness ==
    /\ pc = "AssertionError" /\ dispatched = "Position"
    /\ handleCalls = <<[handle |-> "exit", status |-> "Position"],
                       [handle |-> "exit", status |-> "Exit"]>>

\* The last intrabar check stopped a Long out, on a bar that did not open
\* below the stop (no gap).
LongStoppedNoGap ==
    /\ intrabar.ran /\ intrabar.direction = "long"
    /\ intrabar.exitReason = Some("stop-loss")
    /\ intrabar.bar.open >= Val(intrabar.stop)

\* C13: a Long with an initial stop at a positive distance that is stopped out
\* on a bar that did not open below the stop is filled at or above the initial
\* stop price (entry price minus the initial unit risk), with or without a
\* trailing stop; the trade it becomes has rmultiple >= -1.
C13_StopCapsLoss ==
    /\ dispatched \in {"Enter", "Position"} /\ openPosition /= null /\ LongStoppedNoGap
       /\ intrabar.bar = bar
       /\ IsDefined(openPosition.initialUnitRisk) /\ Val(openPosition.initialUnitRisk) > 0
         => Val(intrabar.exitPrice)
               >= openPosition.entryPrice - Val(openPosition.initialUnitRisk)
    /\ dispatched = "Exit" /\ LongStoppedNoGap /\ LastTrade.exitReason = "stop-loss"
       /\ IsDefined(LastTrade.rmultiple) /\ Val(LastTrade.rmultiple).d > 0
         => /\ Val(LastTrade.rmultiple).n >= - Val(LastTrade.rmultiple).d
            /\ LastTrade.exitPrice >= LastTrade.entryPrice - Val(LastTrade.rmultiple).d

\* C13 witness: a Long with a stop-loss and a trailing stop was stopped out,
\* without a gap, at its initial stop after a bar on which the trailing stop
\* computed from the close lay below the initial stop; rmultiple is -1.
C13_Witness ==
    /\ dispatched = "Exit" /\ LongStoppedNoGap /\ LastTrade.exitReason = "stop-loss"
    /\ strategy.stopLoss /\ strategy.trailingStopLoss
    /\ LastTrade.holdingPeriod = 2
    /\ Val(LastTrade.rmultiple) = Frac(-1, 1)
    /\ LastTrade.exitPrice = 2 /\ intrabar.bar.low < 2

\* A Long stopped out across a gap loses more than one unit of risk.
C13_GapWitness ==
    /\ dispatched = "Exit" /\ LastTrade.direction = "long"
    /\ LastTrade.exitReason = "stop-loss" /\ IsDefined(LastTrade.rmultiple)
    /\ Val(LastTrade.rmultiple).d > 0
    /\ Val(LastTrade.rmultiple).n < - Val(LastTrade.rmultiple).d

\* The bars after the entry bar of the last trade on which the position was
\* open when the bar began (the bars handled by case Position), counted from
\* the bar times: up to the bar before the closing bar for a trade closed by
\* case Exit, up to the last bar for a trade finalized after the loop.
PositionBars ==
    IF dispatched = "Exit"
      THEN (bar.time - LastTrade.entryTime) \div interval - 1
      ELSE (bar.time - LastTrade.entryTime) \div interval

\* A trade has just been closed: by case Exit, or after the loop.
JustClosed ==
    \/ dispatched = "Exit"
    \/ dispatched = "return" /\ openPosition /= null

\* C14 as stated: holding_period counts one update on the entry bar, one for
\* each later bar on which the position is held, and the closing update.
C14_HoldingPeriodCountsEntryBar ==
    JustClosed => LastTrade.holdingPeriod = 1 + PositionBars + 1

\* C14 amended: holding_period is the number of updates of the position, one
\* for each bar after the entry bar on which the position is open when the bar
\* begins, and the closing update; the entry bar does not update the position,
\* whose holdingPeriod is 0 when that bar is done.
C14_HoldingPeriod ==
    /\ JustClosed => LastTrade.holdingPeriod = PositionBars + 1
    /\ dispatched = "Enter" /\ openPosition /= null => openPosition.holdingPeriod = 0
    /\ dispatched = "Position" /\ openPosition /= null /\ pc /= "TypeError"
         => openPosition.holdingPeriod * interval = bar.time - openPosition.entryTime

\* C14 witness: a trade held over one bar in Position after its entry bar has
\* been closed by case Exit with holding_period 2.
C14_Witness ==
    /\ dispatched = "Exit" /\ LastTrade.holdingPeriod = 2 /\ PositionBars = 1
    /\ interval = MaxInterval

\* ------------------------------------------------------------------ C15
\* The array the rules of the bar receive as their lookback (lines 255, 274,
\* 301, 333, 349, 407): the storage of the ring itself, lookbackBuffer.data.
lookback == lookbackBuffer.data

\* The bars on which the loop reaches the switch, where rules are invoked.
RuleBar == dispatched \in {"None", "Enter", "Position", "Exit"}

\* The lookbackPeriod most recent bars, oldest first, ending with the current one.
RecentBars ==
    [k \in 1..lookbackPeriod |-> Some(bar.time - (lookbackPeriod - k) * interval)]

\* No rule is invoked before the buffer is full, and the first bar that reaches
\* the switch, the one of index lookbackPeriod - 1, invokes entryRule.
LookbackGating ==
    /\ RuleBar => barCount >= lookbackPeriod
    /\ (barCount >= 1 /\ barCount < lookbackPeriod) => dispatched \in {"continue", "return"}
    /\ (barCount = lookbackPeriod /\ dispatched /= "return") => dispatched = "None"

\* The bars of the lookback are the lookbackPeriod most recent ones, in some order.
LookbackHoldsRecentBars ==
    (RuleBar /\ dispatched /= "Exit") =>
        {lookback[k] : k \in DOMAIN lookback} = {RecentBars[k] : k \in DOMAIN RecentBars}

\* C15: no rule is invoked on the first lookbackPeriod - 1 bars, the first
\* entryRule call is on the bar of index lookbackPeriod - 1, and every lookback
\* passed to a rule holds exactly the lookbackPeriod most recent bars, oldest
\* first, ending with the current bar.
C15_LookbackWindow ==
    /\ LookbackGating
    /\ (RuleBar /\ dispatched /= "Exit") => lookback = RecentBars

\* A bar on which entryRule is given a lookback that begins with the current bar.
C15_NewestFirst ==
    /\ dispatched = "None"
    /\ lookbackPeriod = 2
    /\ lookback = <<Some(bar.time), Some(bar.time - interval)>>

\* ------------------------------------------------------------------ analyze
\* The numbers of analyze are exact fractions with a positive denominator.  A
\* division by zero gives NaN (0 / 0) or an infinity, written with d = 0.
NaN == Frac(0, 0)
Infinity == Frac(1, 0)
Num(n) == Frac(n, 1)
IsFinite(a) == a.d /= 0
Sign(n) == IF n > 0 THEN 1 ELSE IF n < 0 THEN -1 ELSE 0

\* The same number in lowest terms.
RECURSIVE gcd(_, _)
gcd(a, b) == IF b = 0 THEN a ELSE gcd(b, a % b)
reduced(a) ==
    LET g == gcd(IF a.n < 0 THEN -a.n ELSE a.n, a.d)
    IN  IF a.d = 0 THEN a ELSE Frac(a.n \div g, a.d \div g)

plus(a, b) == reduced(Frac(a.n * b.d + b.n * a.d, a.d * b.d))
minus(a, b) == reduced(FracSub(a, b))
times(a, b) == reduced(FracMul(a, b))
FracLess(a, b) == a.n * b.d < b.n * a.d
FracMin(a, b) == IF FracLess(a, b) THEN a ELSE b
FracMax(a, b) == IF FracLess(a, b) THEN b ELSE a
FracAbs(a) == Frac(IF a.n < 0 THEN -a.n ELSE a.n, a.d)
IsZero(a) == a.n = 0 /\ a.d /= 0

\* The JavaScript quotient a / b of two finite numbers.
divide(a, b) ==
    IF b.n = 0 THEN Frac(Sign(a.n), 0)
    ELSE IF b.n < 0 THEN reduced(Frac(-(a.n * b.d), -(a.d * b.n)))
    ELSE reduced(Frac(a.n * b.d, a.d * b.n))

\* Math.floor and Math.round of a finite number.
floor(a) == a.n \div a.d
roundFrac(a) == (2 * a.n + a.d) \div (2 * a.d)

\* The sum of a sequence of numbers.
RECURSIVE sum(_)
sum(values) ==
    IF values = <<>> THEN Num(0) ELSE plus(values[1], sum(Tail(values)))

\* Series.average (line 86) of a sequence that is not empty.
average(values) == divide(sum(values), Num(Len(values)))

\* math.std (line 87), the square root of the unbiased sample variance (0 for
\* one value), written by the variance it is the root of.
std(values) ==
    LET mean == average(values)
        squares == [k \in DOMAIN values |->
                       times(minus(values[k], mean), minus(values[k], mean))]
    IN  [sqrt |-> IF Len(values) = 1 THEN Num(0)
                                     ELSE divide(sum(squares), Num(Len(values) - 1))]

\* ---- the arguments of analyze
MaxTrades == 3
MaxCapital == 1
EntryPrice == 2

\* A trade is drawn by its growth (negative, zero, a loss, flat, a gain) and by
\* what the backtest recorded on it: nothing; the risk, which gives it riskPct
\* and an rmultiple (for a unit risk of 1); or a rate of return series of one
\* sample for each of its two bars.
Growths == {Frac(-1, 1), Frac(0, 1), Frac(1, 2), Frac(1, 1), Frac(2, 1)}
Recorded == {"nothing", "risk", "rateOfReturn"}
TradeKinds == [growth : Growths, recorded : Recorded]

\* The ITrade of a kind that is entered at entryTime: the fields analyze reads.
tradeAt(kind, entryTime) ==
    LET profit == times(Num(EntryPrice), minus(kind.growth, FracOne))
        holdingPeriod == IF kind.recorded = "rateOfReturn" THEN 2 ELSE 1
    IN  [entryTime |-> entryTime,
         exitTime |-> entryTime + holdingPeriod,
         growth |-> kind.growth,
         profit |-> profit,
         holdingPeriod |-> holdingPeriod,
         riskPct |-> IF kind.recorded = "risk"
                       THEN Some(divide(Num(100), Num(EntryPrice))) ELSE undefined,
         rmultiple |-> IF kind.recorded = "risk" THEN Some(profit) ELSE undefined,
         rateOfReturnSeries |->
             IF kind.recorded = "rateOfReturn"
               THEN Some([k \in 1..holdingPeriod |->
                            [time |-> entryTime + k,
                             value |-> minus(kind.growth, FracOne)]])
               ELSE undefined]

\* The trades of a list of kinds, each entered when the one before it exits.
RECURSIVE tradesOf(_, _)
tradesOf(kinds, entryTime) ==
    IF kinds = <<>> THEN <<>>
    ELSE LET trade == tradeAt(kinds[1], entryTime)
         IN  <<trade>> \o tradesOf(Tail(kinds), trade.exitTime)

TradeLists ==
    {tradesOf(kinds, 0) : kinds \in UNION {[1..n -> TradeKinds] : n \in 0..MaxTrades}}

\* The options argument: a timeframe of one time unit or none, a startingDate at
\* the first entry or none, no endingDate.  (No options at all reads as these
\* options with nothing defined.)
AnalyzeOptions ==
    [timeframe : {undefined, Some(1)}, startingDate : {undefined, Some(0)},
     endingDate : {undefined}]

\* new Date() (line 44): the time of the call, after the last exit.
Now == 2 * MaxTrades + 1

\* ---- the steps of analyze
\* JavaScript truthiness of a number: 0 and NaN are falsy.
TruthyNumber(a) == a.n /= 0

\* An array, and `array[index] = value` for index >= 0: an index past the end
\* lengthens the array and leaves empty slots before it.
Array(items) == [items |-> items]
setAt(items, index, value) ==
    IF index + 1 <= Len(items) THEN [items EXCEPT ![index + 1] = value]
    ELSE [k \in 1..(index + 1) |->
             IF k <= Len(items) THEN items[k]
             ELSE IF k = index + 1 THEN value ELSE undefined]

\* Lines 22-48: the locals before the loop.
startOfAnalyze(startingCapital, trades, opts) ==
    LET given == IF IsDefined(opts.timeframe) THEN Num(Val(opts.timeframe)) ELSE Num(0)
        first == IF trades = <<>> THEN undefined ELSE trades[1].rateOfReturnSeries
        barTime ==
            IF ~TruthyNumber(given) /\ IsDefined(first)
              THEN divide(Num(trades[1].exitTime - trades[1].entryTime),
                          Num(Len(Val(first))))
              ELSE given
        reconstructs == TruthyNumber(barTime) /\ IsDefined(opts.startingDate)
        endingDate == IF IsDefined(opts.endingDate) THEN opts.endingDate ELSE Some(Now)
        barCountOfDateRange ==
            floor(divide(Num(Val(endingDate) - Val(opts.startingDate)), barTime))
    IN  [options |-> IF reconstructs THEN [opts EXCEPT !.endingDate = endingDate] ELSE opts,
         workingCapital |-> Num(startingCapital),
         barCount |-> 0,
         peakCapital |-> Num(startingCapital),
         workingDrawdown |-> Num(0),
         maxDrawdown |-> Num(0),
         maxDrawdownPct |-> Num(0),
         totalProfits |-> Num(0),
         totalLosses |-> Num(0),
         numWinningTrades |-> 0,
         numLosingTrades |-> 0,
         totalTrades |-> 0,
         maxRiskPct |-> undefined,
         sharpeRatio |-> Num(0),
         timeframe |-> barTime,
         rateOfReturnList |->
             IF reconstructs THEN Array([k \in 1..barCountOfDateRange |-> Num(0)])
                             ELSE null]

\* Lines 52-54.
maxRisk(a, trade) ==
    IF IsDefined(trade.riskPct)
      THEN Some(FracMax(Val(trade.riskPct),
                        IF IsDefined(a.maxRiskPct) /\ TruthyNumber(Val(a.maxRiskPct))
                          THEN Val(a.maxRiskPct) ELSE Num(0)))
      ELSE a.maxRiskPct

\* Lines 57-59: each sample is written at the index of its time.
RECURSIVE scatter(_, _, _, _)
scatter(items, samples, startingDate, barTime) ==
    IF samples = <<>> THEN items
    ELSE scatter(setAt(items,
                       roundFrac(divide(Num(samples[1].time - startingDate), barTime)),
                       samples[1].value),
                 Tail(samples), startingDate, barTime)

\* Line 57 throws a TypeError when the trade has no series to iterate.
scatterThrows(a, trade) ==
    a.rateOfReturnList /= null /\ ~IsDefined(trade.rateOfReturnSeries)

\* Lines 56-60.
scattered(a, trade) ==
    IF a.rateOfReturnList /= null
      THEN Array(scatter(a.rateOfReturnList.items, Val(trade.rateOfReturnSeries),
                         Val(a.options.startingDate), a.timeframe))
      ELSE a.rateOfReturnList

\* The capital grows by the sum of the growths instead of their product.
compoundAdds(a, trade) ==
    [workingCapital |-> plus(a.workingCapital, trade.growth),
     barCount |-> a.barCount + trade.holdingPeriod]

\* Lines 62-63.
compound(a, trade) ==
    [workingCapital |-> times(a.workingCapital, trade.growth),
     barCount |-> a.barCount + trade.holdingPeriod]

\* The peak follows the working capital down.
drawdownPeakFollows(a, workingCapital) ==
    [peakCapital |-> workingCapital,
     workingDrawdown |-> Num(0),
     maxDrawdown |-> a.maxDrawdown,
     maxDrawdownPct |-> a.maxDrawdownPct]

\* maxDrawdownPct is the percentage of the last drawdown, not the lowest so far.
drawdownPctOfLast(a, workingCapital) ==
    LET below == FracLess(workingCapital, a.peakCapital)
        peakCapital == IF below THEN a.peakCapital ELSE workingCapital
        workingDrawdown == IF below THEN minus(workingCapital, a.peakCapital)
                                    ELSE Num(0)
    IN  [peakCapital |-> peakCapital,
         workingDrawdown |-> workingDrawdown,
         maxDrawdown |-> FracMin(workingDrawdown, a.maxDrawdown),
         maxDrawdownPct |-> times(divide(workingDrawdown, peakCapital), Num(100))]

\* Lines 65-70 and 80-81.
drawdown(a, workingCapital) ==
    LET below == FracLess(workingCapital, a.peakCapital)
        peakCapital == IF below THEN a.peakCapital ELSE workingCapital
        workingDrawdown == IF below THEN minus(workingCapital, a.peakCapital)
                                    ELSE Num(0)
        maxDrawdown == FracMin(workingDrawdown, a.maxDrawdown)
    IN  [peakCapital |-> peakCapital,
         workingDrawdown |-> workingDrawdown,
         maxDrawdown |-> maxDrawdown,
         maxDrawdownPct |-> FracMin(times(divide(maxDrawdown, peakCapital), Num(100)),
                                    a.maxDrawdownPct)]

\* A trade of profit zero is counted as a winner.
profitSplitZeroWins(a, trade) ==
    IF ~FracLess(trade.profit, Num(0))
      THEN [totalProfits |-> plus(a.totalProfits, trade.profit),
            numWinningTrades |-> a.numWinningTrades + 1,
            totalLosses |-> a.totalLosses,
            numLosingTrades |-> a.numLosingTrades]
      ELSE [totalProfits |-> a.totalProfits,
            numWinningTrades |-> a.numWinningTrades,
            totalLosses |-> plus(a.totalLosses, trade.profit),
            numLosingTrades |-> a.numLosingTrades + 1]

\* Lines 72-78.
profitSplit(a, trade) ==
    IF FracLess(Num(0), trade.profit)
      THEN [totalProfits |-> plus(a.totalProfits, trade.profit),
            numWinningTrades |-> a.numWinningTrades + 1,
            totalLosses |-> a.totalLosses,
            numLosingTrades |-> a.numLosingTrades]
      ELSE [totalProfits |-> a.totalProfits,
            numWinningTrades |-> a.numWinningTrades,
            totalLosses |-> plus(a.totalLosses, trade.profit),
            numLosingTrades |-> a.numLosingTrades + 1]

\* Lines 51-81: one iteration of the loop that does not throw.
analyzeTrade(a, trade) ==
    LET compounded == compound(a, trade)
    IN  [totalTrades |-> a.totalTrades + 1,
         maxRiskPct |-> maxRisk(a, trade),
         rateOfReturnList |-> scattered(a, trade)]
        @@ compounded @@ drawdown(a, compounded.workingCapital)
        @@ profitSplit(a, trade) @@ a

\* Line 116, written by what it is computed from: the average of the list over
\* its standard deviation, scaled by the square root of the bars in a year.
sharpe(items, barTime) == [sharpeOf |-> items, timeframe |-> barTime]

\* Lines 84-143: the Analysis that is returned.
analysisOf(a) ==
    LET with == SelectSeq(a.trades, LAMBDA trade : IsDefined(trade.rmultiple))
        rmultiples == [k \in DOMAIN with |-> Val(with[k].rmultiple)]
        expectency == IF Len(rmultiples) > 0 THEN Some(average(rmultiples)) ELSE undefined
        rmultipleStdDev == IF Len(rmultiples) > 0 THEN Some(std(rmultiples)) ELSE undefined
        systemQuality ==
            IF IsDefined(expectency) /\ IsDefined(rmultipleStdDev)
                 /\ ~IsZero(Val(rmultipleStdDev).sqrt)
              THEN Some([quotient |-> <<Val(expectency), Val(rmultipleStdDev)>>])
              ELSE undefined
        absTotalLosses == FracAbs(a.totalLosses)
        profitFactor == IF FracLess(Num(0), absTotalLosses)
                          THEN Some(divide(a.totalProfits, absTotalLosses))
                          ELSE undefined
        startingCapital == Num(a.startingCapital)
        profit == minus(a.workingCapital, startingCapital)
        profitPct == times(divide(profit, startingCapital), Num(100))
        proportionWinning == IF a.totalTrades > 0
                               THEN divide(Num(a.numWinningTrades), Num(a.totalTrades))
                               ELSE Num(0)
        proportionLosing == IF a.totalTrades > 0
                              THEN divide(Num(a.numLosingTrades), Num(a.totalTrades))
                              ELSE Num(0)
        averageWinningTrade == IF a.numWinningTrades > 0
                                 THEN divide(a.totalProfits, Num(a.numWinningTrades))
                                 ELSE Num(0)
        averageLosingTrade == IF a.numLosingTrades > 0
                                THEN divide(a.totalLosses, Num(a.numLosingTrades))
                                ELSE Num(0)
    IN  [startingCapital |-> startingCapital,
         finalCapital |-> a.workingCapital,
         profit |-> profit,
         profitPct |-> profitPct,
         growth |-> divide(a.workingCapital, startingCapital),
         totalTrades |-> a.totalTrades,
         barCount |-> a.barCount,
         maxDrawdown |-> a.maxDrawdown,
         maxDrawdownPct |-> a.maxDrawdownPct,
         maxRiskPct |-> a.maxRiskPct,
         expectency |-> expectency,
         rmultipleStdDev |-> rmultipleStdDev,
         sharpeRatio |-> IF a.rateOfReturnList /= null
                           THEN sharpe(a.rateOfReturnList.items, a.timeframe)
                           ELSE a.sharpeRatio,
         systemQuality |-> systemQuality,
         profitFactor |-> profitFactor,
         proportionProfitable |-> proportionWinning,
         percentProfitable |-> times(proportionWinning, Num(100)),
         returnOnAccount |-> divide(profitPct, FracAbs(a.maxDrawdownPct)),
         averageProfitPerTrade |-> divide(profit, Num(a.totalTrades)),
         numWinningTrades |-> a.numWinningTrades,
         numLosingTrades |-> a.numLosingTrades,
         averageWinningTrade |-> averageWinningTrade,
         averageLosingTrade |-> averageLosingTrade,
         expectedValue |-> plus(times(proportionWinning, averageWinningTrade),
                                   times(proportionLosing, averageLosingTrade))]

\* ---- analyze as a state machine
BacktestVars ==
    <<strategy, options, pc, barCount, interval, priceCap, barCap, firstTime, bar,
      lookbackBuffer, positionStatus, positionDirection, openPosition, exitPrice, exitReason,
      completedTrades, dispatched, intrabar, handleCalls>>

\* A call of analyze with arguments drawn from the sets above; no backtest runs.
InitAnalyze ==
    /\ analyzer \in [pc : {"called"}, startingCapital : 0..MaxCapital,
                     trades : TradeLists, options : AnalyzeOptions]
    /\ strategy = [lookbackPeriod |-> 1, stopLoss |-> FALSE, trailingStopLoss |-> FALSE,
                   profitTarget |-> FALSE, exitRule |-> FALSE, fees |-> Frac(0, 1),
                   distances |-> Distances]
    /\ options = [recordStopPrice |-> FALSE, recordRisk |-> FALSE,
                  recordRateOfReturn |-> FALSE]
    /\ interval = 1
    /\ priceCap = MaxPrice
    /\ barCap = MaxBars
    /\ StartOfRun

\* Lines 14-16: a startingCapital that is not positive is rejected.
AnalyzeRejects ==
    /\ analyzer.pc = "called"
    /\ analyzer.startingCapital <= 0
    /\ analyzer' = [analyzer EXCEPT !.pc = "Error"]
    /\ UNCHANGED BacktestVars

\* Lines 22-48.
AnalyzeStart ==
    /\ analyzer.pc = "called"
    /\ analyzer.startingCapital > 0
    /\ analyzer' = [pc |-> "loop"]
                   @@ startOfAnalyze(analyzer.startingCapital, analyzer.trades,
                                     analyzer.options)
                   @@ analyzer
    /\ UNCHANGED BacktestVars

\* Lines 50-82: the iteration of the next trade.
AnalyzeTrade ==
    /\ analyzer.pc = "loop"
    /\ analyzer.totalTrades < Len(analyzer.trades)
    /\ LET trade == analyzer.trades[analyzer.totalTrades + 1]
       IN  /\ ~scatterThrows(analyzer, trade)
           /\ analyzer' = analyzeTrade(analyzer, trade)
    /\ UNCHANGED BacktestVars

\* Lines 50-57: the iteration of a trade that has no rateOfReturnSeries while the
\* rate of return list is built throws out of analyze.
AnalyzeTradeThrows ==
    /\ analyzer.pc = "loop"
    /\ analyzer.totalTrades < Len(analyzer.trades)
    /\ LET trade == analyzer.trades[analyzer.totalTrades + 1]
       IN  /\ scatterThrows(analyzer, trade)
           /\ analyzer' = [analyzer EXCEPT !.pc = "TypeError",
                                           !.totalTrades = @ + 1,
                                           !.maxRiskPct = maxRisk(analyzer, trade)]
    /\ UNCHANGED BacktestVars

\* Lines 84-145: after the last trade the Analysis is built and returned.
AnalyzeReturn ==
    /\ analyzer.pc = "loop"
    /\ analyzer.totalTrades = Len(analyzer.trades)
    /\ analyzer' = [pc |-> "returned", analysis |-> analysisOf(analyzer)] @@ analyzer
    /\ UNCHANGED BacktestVars

NextAnalyze ==
    \/ AnalyzeRejects
    \/ AnalyzeStart
    \/ AnalyzeTrade
    \/ AnalyzeTradeThrows
    \/ AnalyzeReturn

SpecAnalyze == InitAnalyze /\ [][NextAnalyze]_vars

\* ------------------------------------------------------------------ C16
\* The product of the growths and the sum of the holding periods of trades.
RECURSIVE growthProduct(_)
growthProduct(trades) ==
    IF trades = <<>> THEN Num(1)
    ELSE times(growthProduct(SubSeq(trades, 1, Len(trades) - 1)), trades[Len(trades)].growth)

RECURSIVE holdingPeriods(_)
holdingPeriods(trades) ==
    IF trades = <<>> THEN 0 ELSE trades[1].holdingPeriod + holdingPeriods(Tail(trades))

\* C16: the Analysis that analyze returns has finalCapital = startingCapital
\* times the product of the growths of all trades, profit = finalCapital -
\* startingCapital and barCount = the sum of the holding periods; for an empty list
\* of trades finalCapital = startingCapital.
C16_AnalyzeCompounds ==
    analyzer.pc = "returned" =>
        LET analysis == analyzer.analysis
            startingCapital == Num(analyzer.startingCapital)
        IN  /\ FracEq(analysis.finalCapital,
                      times(startingCapital, growthProduct(analyzer.trades)))
            /\ FracEq(analysis.profit, minus(analysis.finalCapital, startingCapital))
            /\ analysis.barCount = holdingPeriods(analyzer.trades)
            /\ analyzer.trades = <<>> => FracEq(analysis.finalCapital, startingCapital)

\* analyze has returned for trades of different growths and holding periods
\* that changed the capital.
C16_Witness ==
    /\ analyzer.pc = "returned"
    /\ Len(analyzer.trades) >= 2
    /\ analyzer.trades[1].growth /= analyzer.trades[2].growth
    /\ analyzer.trades[1].holdingPeriod /= analyzer.trades[2].holdingPeriod
    /\ ~IsZero(analyzer.analysis.profit)

\* ------------------------------------------------------------------ C17
\* The locals of the loop of analyze exist.
InAnalyzeLoop == analyzer.pc \in {"loop", "returned", "TypeError"}

LessOrEqual(a, b) == ~FracLess(b, a)

\* C17: after every processed trade peakCapital is at least its previous value
\* and at least workingCapital, workingDrawdown = workingCapital - peakCapital
\* is at most 0, and maxDrawdown and maxDrawdownPct are at most 0, whatever the
\* growths of the trades are.
C17_PeakAndDrawdown ==
    /\ [](InAnalyzeLoop =>
            /\ LessOrEqual(analyzer.workingCapital, analyzer.peakCapital)
            /\ FracEq(analyzer.workingDrawdown,
                      minus(analyzer.workingCapital, analyzer.peakCapital))
            /\ LessOrEqual(analyzer.workingDrawdown, Num(0))
            /\ LessOrEqual(analyzer.maxDrawdown, Num(0))
            /\ LessOrEqual(analyzer.maxDrawdownPct, Num(0)))
    /\ [][(InAnalyzeLoop /\ analyzer'.pc = "loop") =>
            LessOrEqual(analyzer.peakCapital, analyzer'.peakCapital)]_vars

\* The capital rose to a peak and a trade of negative growth then took it below zero.
C17_Witness ==
    /\ analyzer.pc = "loop"
    /\ analyzer.totalTrades >= 2
    /\ FracLess(Num(analyzer.startingCapital), analyzer.peakCapital)
    /\ FracLess(analyzer.workingCapital, Num(0))
    /\ FracLess(analyzer.maxDrawdownPct, Num(-100))

\* ------------------------------------------------------------------ C18
\* The trades the loop has processed, and how many of them satisfy a condition.
Processed == SubSeq(analyzer.trades, 1, analyzer.totalTrades)
Winners == SelectSeq(Processed, LAMBDA trade : FracLess(Num(0), trade.profit))
Losers == SelectSeq(Processed, LAMBDA trade : ~FracLess(Num(0), trade.profit))

\* C18: every processed trade is counted once, as winning when its profit is
\* above 0 and as losing otherwise (a profit of 0 is a loss that adds 0):
\* numWinningTrades + numLosingTrades = totalTrades, totalProfits >= 0 and
\* totalLosses <= 0.
C18_WinnersAndLosers ==
    analyzer.pc \in {"loop", "returned"} =>
        /\ analyzer.numWinningTrades = Len(Winners)
        /\ analyzer.numLosingTrades = Len(Losers)
        /\ analyzer.numWinningTrades + analyzer.numLosingTrades = analyzer.totalTrades
        /\ FracEq(analyzer.totalProfits, sum([k \in DOMAIN Winners |-> Winners[k].profit]))
        /\ FracEq(analyzer.totalLosses, sum([k \in DOMAIN Losers |-> Losers[k].profit]))
        /\ LessOrEqual(Num(0), analyzer.totalProfits)
        /\ LessOrEqual(analyzer.totalLosses, Num(0))

\* A winner, a loser and a trade of profit 0 have been processed.
C18_Witness ==
    /\ analyzer.pc = "returned"
    /\ analyzer.numWinningTrades = 1
    /\ analyzer.numLosingTrades = 2
    /\ FracLess(analyzer.totalLosses, Num(0))
    /\ \E k \in DOMAIN analyzer.trades : IsZero(analyzer.trades[k].profit)

\* ------------------------------------------------------------------ C19
\* An optional number that is absent or finite.
AbsentOrFinite(x) == IsDefined(x) => IsFinite(Val(x))

\* The scalars of the Analysis whose division is guarded (lines 86-109).
GuardedScalarsFinite ==
    analyzer.pc = "returned" =>
        LET analysis == analyzer.analysis
        IN  /\ AbsentOrFinite(analysis.expectency)
            /\ IsDefined(analysis.systemQuality) =>
                   ~IsZero(Val(analysis.rmultipleStdDev).sqrt)
            /\ AbsentOrFinite(analysis.profitFactor)
            /\ IsFinite(analysis.proportionProfitable)
            /\ IsFinite(analysis.percentProfitable)
            /\ IsFinite(analysis.averageWinningTrade)
            /\ IsFinite(analysis.averageLosingTrade)
            /\ IsFinite(analysis.expectedValue)
            /\ IsFinite(analysis.profitPct)
            /\ IsFinite(analysis.growth)
            /\ IsFinite(analysis.maxDrawdownPct)

\* C19: no scalar of the returned Analysis is the result of a division by zero:
\* for an empty list of trades and for lists with no drawdown, no losses or no
\* rmultiples, each metric whose divisor is zero is 0 or absent, never NaN or an
\* infinity.
C19_NoDivisionByZero ==
    /\ GuardedScalarsFinite
    /\ analyzer.pc = "returned" =>
          /\ IsFinite(analyzer.analysis.averageProfitPerTrade)
          /\ IsFinite(analyzer.analysis.returnOnAccount)

\* analyze returns an Analysis for an empty list of trades.
C19_EmptyList == analyzer.pc = "returned" /\ analyzer.trades = <<>>

\* The return on account of trades that never lose is an infinity.
C19_InfiniteReturnOnAccount ==
    /\ analyzer.pc = "returned"
    /\ analyzer.analysis.returnOnAccount = Infinity
    /\ IsFinite(analyzer.analysis.averageProfitPerTrade)

\* ------------------------------------------------------------------ C20
\* The rate of return list is built: a startingDate is given and a timeframe is
\* given or derived from the first trade.
Reconstructs ==
    IsDefined(analyzer.options.startingDate) /\ TruthyNumber(analyzer.timeframe)

\* Without a startingDate or a timeframe the Sharpe ratio of the Analysis is 0.
SharpeZeroWhenInactive ==
    (analyzer.pc = "returned" /\ ~Reconstructs) => analyzer.analysis.sharpeRatio = Num(0)

\* C20: when the rate of return list is built, only the trades that carry a
\* rateOfReturnSeries are scattered into it, a trade without one is skipped and
\* analyze still returns an Analysis; without a startingDate or a timeframe the
\* Sharpe ratio is 0.
C20_SharpeSkipsTradesWithoutSeries ==
    /\ analyzer.pc /= "TypeError"
    /\ SharpeZeroWhenInactive

\* analyze has thrown on a trade without a series that follows a trade with one.
C20_ThrowsOnTradeWithoutSeries ==
    /\ analyzer.pc = "TypeError"
    /\ analyzer.totalTrades = 2
    /\ IsDefined(analyzer.trades[1].rateOfReturnSeries)
    /\ ~IsDefined(analyzer.trades[2].rateOfReturnSeries)

\* ------------------------------------------------------------------ C21
\* The reason and the price of the exit the last intrabar check recorded, as
\* case Exit reads them (line 437) on bar b.
recordedReason == IF IsDefined(intrabar.exitReason) THEN Val(intrabar.exitReason)
                                                    ELSE "exit-rule"
recordedPrice(b) == IF IsDefined(intrabar.exitPrice) THEN Val(intrabar.exitPrice)
                                                     ELSE b.open

\* The trade closed on the bar after an intrabar exit carries that exit.
ExitReportedOnNextBar ==
    dispatched = "Exit" =>
        /\ LastTrade.exitReason = recordedReason
        /\ LastTrade.exitPrice = recordedPrice(bar)

\* The series ended on a bar whose intrabar check recorded an exit.
ExitedOnLastBar ==
    /\ pc = "done"
    /\ positionStatus = "Exit"
    /\ intrabar.ran /\ intrabar.bar = bar

\* C21: every intrabar exit that triggers (stop-loss, profit target or a call
\* of exitRule) yields a trade with that exit's price and reason, also when it
\* triggers on the last bar of the series: a stop-loss triggered there is
\* reported as "stop-loss" at the stop fill price.
C21_IntrabarExitReported ==
    /\ ExitReportedOnNextBar
    /\ ExitedOnLastBar =>
          /\ LastTrade.exitReason = recordedReason
          /\ IsDefined(intrabar.exitPrice) => LastTrade.exitPrice = Val(intrabar.exitPrice)

\* A stop-loss triggered on the last bar, and the trade was finalized at the
\* close of that bar, away from the stop fill.
C21_StopOnLastBarFinalized ==
    /\ ExitedOnLastBar
    /\ StopTriggered
    /\ intrabar.exitReason = Some("stop-loss")
    /\ LastTrade.exitReason = "finalize"
    /\ LastTrade.exitPrice = bar.close
    /\ LastTrade.exitPrice /= Val(intrabar.exitPrice)

\* ------------------------------------------------------------------ longer runs
\* Runs long enough for a second trade: series of up to MaxTradeBars bars with
\* prices from 1..MaxPrice, for a strategy that exits by its exitRule and pays
\* no fee or a fee of 1/2, and for a strategy with a trailing stop only whose
\* risk is recorded.
MaxTradeBars == 6

InitTrades ==
    /\ \/ /\ strategy \in [lookbackPeriod : {1}, stopLoss : {FALSE},
                           trailingStopLoss : {FALSE}, profitTarget : {FALSE},
                           exitRule : {TRUE}, fees : {Frac(0, 1), Frac(1, 2)},
                           distances : {Distances}]
          /\ options = [recordStopPrice |-> FALSE, recordRisk |-> FALSE,
                        recordRateOfReturn |-> FALSE]
       \/ /\ strategy = [lookbackPeriod |-> MaxLookback, stopLoss |-> FALSE,
                         trailingStopLoss |-> TRUE, profitTarget |-> FALSE,
                         exitRule |-> FALSE, fees |-> Frac(0, 1),
                         distances |-> Distances]
          /\ options = [recordStopPrice |-> FALSE, recordRisk |-> TRUE,
                        recordRateOfReturn |-> FALSE]
    /\ interval = 1
    /\ priceCap = MaxPrice
    /\ barCap = MaxTradeBars
    /\ StartOfRun
    /\ analyzer = NotCalled

SpecTrades == InitTrades /\ [][Next]_vars

\* ------------------------------------------------------------------ C22
\* C22: trades never overlap and are returned in exit order: of two consecutive
\* trades the later one is entered strictly after the earlier one's exit time,
\* at the earliest two bars after it (the bar that closes a trade invokes no
\* entryRule and leaves the status at None), and its exit time is not earlier.
C22_TradesDoNotOverlap ==
    /\ \A i \in 1..(Len(completedTrades) - 1) :
          /\ completedTrades[i + 1].entryTime > completedTrades[i].exitTime
          /\ completedTrades[i + 1].entryTime >= completedTrades[i].exitTime + 2 * interval
          /\ completedTrades[i + 1].exitTime >= completedTrades[i].exitTime
    /\ (dispatched = "Exit" /\ pc = "loop") =>
          /\ handleCalls = <<>>
          /\ positionStatus = "None"
          /\ LastTrade.exitTime = bar.time

\* A run has returned two trades, the second entered two bars after the first
\* was closed and closed in its turn.
C22_Witness ==
    /\ pc = "done"
    /\ Len(completedTrades) = 2
    /\ completedTrades[2].entryTime = completedTrades[1].exitTime + 2 * interval
    /\ completedTrades[2].exitReason /= "finalize"

\* ------------------------------------------------------------------ C23
\* The growth of a trade is above 1, below 1 (denominators are positive).
Grew(t) == t.growth.n > t.growth.d
Shrank(t) == t.growth.n < t.growth.d

\* A trade of negative profit shrinks the capital; with no fees a trade of
\* positive profit grows it.
LossShrinks == \A t \in Trades : t.profit < 0 => Shrank(t)
GainGrowsWithoutFees ==
    strategy.fees.n = 0 => \A t \in Trades : t.profit > 0 => Grew(t)

\* C23: for every trade the sign of profit agrees with the effect on capital: a
\* trade of profit > 0 has growth > 1 and a trade of profit < 0 has growth < 1,
\* whatever fees in [0, 1) are charged.
C23_ProfitSignAgreesWithGrowth ==
    \A t \in Trades :
        /\ t.profit > 0 => Grew(t)
        /\ t.profit < 0 => Shrank(t)

\* A trade of positive profit whose growth after fees is not above 1.
C23_WinnerThatDoesNotGrow ==
    \E t \in Trades : t.profit > 0 /\ ~Grew(t) /\ t.exitReason /= "finalize"

\* ------------------------------------------------------------------ C24
\* The largest peak-to-trough percentage decline of the equity curve that
\* starts at `capital` under `peak` and runs through `trades`: the lowest, over
\* the trades, of (capital - peak) / peak * 100 once the trade is applied, or
\* `lowest` when none is lower.
RECURSIVE declinePct(_, _, _, _)
declinePct(capital, peak, trades, lowest) ==
    IF trades = <<>> THEN lowest
    ELSE LET grown == times(capital, trades[1].growth)
             top == FracMax(peak, grown)
             decline == times(divide(minus(grown, top), top), Num(100))
         IN  declinePct(grown, top, Tail(trades), FracMin(decline, lowest))

\* C24: the maxDrawdownPct of analyze is the largest peak-to-trough percentage
\* decline of the equity curve, the minimum over the processed trades of
\* (workingCapital - peakCapital) / peakCapital * 100 at that trade, although
\* the code divides the lowest drawdown so far by the peak of the moment.
C24_MaxDrawdownPct ==
    /\ analyzer.pc \in {"loop", "returned"} =>
          FracEq(analyzer.maxDrawdownPct,
                 declinePct(Num(analyzer.startingCapital), Num(analyzer.startingCapital),
                            Processed, Num(0)))
    /\ analyzer.pc = "returned" =>
          analyzer.analysis.maxDrawdownPct = analyzer.maxDrawdownPct

\* The capital fell, then rose to a new peak: the lowest drawdown so far over
\* the peak of the moment is neither the decline at the last trade nor the
\* percentage reported.
C24_Witness ==
    /\ analyzer.pc = "returned"
    /\ FracLess(Num(analyzer.startingCapital), analyzer.peakCapital)
    /\ IsZero(analyzer.workingDrawdown)
    /\ FracLess(analyzer.maxDrawdown, Num(0))
    /\ FracLess(analyzer.maxDrawdownPct,
                times(divide(analyzer.maxDrawdown, analyzer.peakCapital), Num(100)))

====
